---- MODULE Spec2Model ----
(***************************************************************************)
(* Model of the self-correcting execution orchestrator                     *)
(* app/utils/process_query_algo.py :: process_query_algo.                  *)
(*                                                                         *)
(* One run of process_query_algo is one behaviour.  The program counter pc *)
(* names the source line of the next gateway or sandbox call ("L62" is the *)
(* call of gen_from_query on line 62, and so on).  Every action is one     *)
(* awaited call together with the straight-line code, loop tests, returns  *)
(* and exception handling that follow it up to the next call.              *)
(***************************************************************************)
EXTENDS Integers, Sequences, FiniteSets, TLC

\* ---------------------------------------------------------------- bounds
\* Largest value of the ERROR_ATTEMPTS environment setting explored.
MaxErrorAttempts == 7
\* Largest value of the ANALYSIS_ATTEMPTS environment setting explored.
MaxAnalysisAttempts == 3

VARIABLES
    ERROR_ATTEMPTS,      \* int(os.getenv("ERROR_ATTEMPTS"))
    ANALYSIS_ATTEMPTS,   \* int(os.getenv("ANALYSIS_ATTEMPTS"))
    data,                \* the input datasets: sequence of content kinds
    pc,                  \* line of the next call, or "done"
    result,              \* the local variable result (a SandboxResult)
    error_attempts,
    analysis_attempts,
    past_errors,         \* execution ids whose error text was appended
    new_data,            \* content of the synthetic FileDataInfo (line 102)
    full_diff_context,   \* keys <<I, J>> of the diffs serialised (line 125)
    ret,                 \* the SandboxResult returned by the run
    retSite,             \* line of the return statement taken
    calls,               \* number of calls made, per operation
    lastCall,            \* the operation called last
    errored,             \* ids of executions whose result carried an error
    analysed,            \* ids of results handed to analyze_sandbox_result
    positive,            \* ids of results whose analysis was judged positive
    negative,            \* ids of results whose analysis was judged negative
    raised,              \* origin of the exception caught, or "none"
    connected,           \* whether the invoking client is still connected
    old_df,              \* compute_dataset_diff: the argument old_df
    new_df,              \* compute_dataset_diff: the argument new_df
    diff,                \* compute_dataset_diff: what the call yields
    suggested_code,      \* extract_code: the argument suggested_code
    extracted,           \* extract_code: what the call returns
    fallback,            \* execute_with_fallback: the operation, what each
                         \* provider does with it, and what the call yields
    naming,              \* the names bound (line 51) and announced (line 819)
    conncheck            \* check_client_connection: the state of one call

vars == <<ERROR_ATTEMPTS, ANALYSIS_ATTEMPTS, data, pc, result, error_attempts,
          analysis_attempts, past_errors, new_data, full_diff_context, ret,
          retSite, calls, lastCall, errored, analysed, positive, negative,
          raised, connected, old_df, new_df, diff, suggested_code,
          extracted, fallback, naming, conncheck>>

\* The arguments and results of the two helper functions, which a run of
\* process_query_algo leaves alone.
HelperVars == <<old_df, new_df, diff, suggested_code, extracted, fallback,
                naming, conncheck>>

\* ------------------------------------------------------------ vocabulary
Operations == {"gen_from_query", "gen_from_error", "gen_from_analysis",
               "analyze_sandbox_result", "sentiment_analysis", "execute_code"}

NoError == "None"
SandboxError == "sandbox error"
FixedMessage == "Failed to interpret query. Please try rephrasing your request."
ConnectionErrorMessage == "Connection Error: ..."
InterpretationFailedMessage == "LLM interpretation failed: ..."

\* Python None as a return value.
NoneValue == [type |-> "NoneType", items |-> <<>>, src |-> 0]

\* The value of result before line 65 has run.
\* error_detail names the exception whose text str(e) is part of the error
\* message, "none" when the message holds no exception text.
NoResult == [id |-> 0, error |-> NoError, error_detail |-> "none",
             return_value |-> NoneValue, timed_out |-> FALSE]

\* The dataset lists explored, each a sequence of the kinds of
\* FileDataInfo.content (data = None and data = [] are both <<>>).
DatasetLists == {<<>>, <<"DataFrame">>, <<"EmptyDataFrame">>, <<"str">>,
                 <<"str", "DataFrame">>}

\* What sandbox.execute_code can hand back: an error result (possibly timed
\* out) or an error-free result carrying a value of some runtime type.
\* items is what iterating the value yields (empty for a non-iterable).
SandboxOutcomes ==
    { [error |-> SandboxError, type |-> "NoneType", items |-> <<>>, timed_out |-> t]
        : t \in BOOLEAN }
    \cup
    { [error |-> NoError, type |-> "int", items |-> <<>>, timed_out |-> FALSE],
      [error |-> NoError, type |-> "DataFrame", items |-> <<"str">>, timed_out |-> FALSE],
      [error |-> NoError, type |-> "tuple", items |-> <<"DataFrame", "str">>,
       timed_out |-> FALSE] }

\* Of what execute_code may raise, the except clauses tell a
\* ConnectionError from any other Exception.
SandboxExceptions == {"ConnectionError", "RuntimeError"}

\* What one provider does with an operation: it answers, it fails to
\* connect (httpx.ConnectError, httpx.ConnectTimeout) or it fails otherwise.
ProviderOutcomes == {"ok", "ConnectError", "Error"}

\* llm_service.py lines 459-494: LLMService.execute_with_fallback, for the
\* outcome p of the primary provider (OpenAI) and s of the secondary
\* (Anthropic).  invoked lists the providers called, raises the exception
\* that leaves the call.
ExecuteWithFallbackAsksBoth(p, s) ==
    IF s = "ok"
    THEN [provider |-> "anthropic", result_of |-> "anthropic",
          invoked |-> <<"openai", "anthropic">>, raises |-> "none"]
    ELSE IF p = "ok"
    THEN [provider |-> "openai", result_of |-> "openai",
          invoked |-> <<"openai", "anthropic">>, raises |-> "none"]
    ELSE [provider |-> "none", result_of |-> "none",
          invoked |-> <<"openai", "anthropic">>, raises |-> "HTTPException500"]
ExecuteWithFallback(p, s) ==
    IF p = "ok"
    THEN [provider |-> "openai", result_of |-> "openai",
          invoked |-> <<"openai">>, raises |-> "none"]
    ELSE IF s = "ok"
    THEN [provider |-> "anthropic", result_of |-> "anthropic",
          invoked |-> <<"openai", "anthropic">>, raises |-> "none"]
    ELSE IF p = "ConnectError" /\ s = "ConnectError"
    THEN [provider |-> "none", result_of |-> "none",
          invoked |-> <<"openai", "anthropic">>,
          raises |-> "HTTPException503"]
    ELSE [provider |-> "none", result_of |-> "none",
          invoked |-> <<"openai", "anthropic">>,
          raises |-> "HTTPException500"]

\* llm_service.py lines 407-448: the operations of self._operation_map,
\* and a name that is not among them.
OperationMap ==
    {"generate_text", "process_image_with_vision", "process_pdf_with_vision",
     "gen_from_query", "gen_from_error", "gen_from_analysis",
     "analyze_sandbox_result", "sentiment_analysis", "file_namer",
     "gen_visualization"}
UnknownOperation == "no_such_operation"

\* Lines 459-504 for any operation name: for a name outside the map both
\* _execute_openai and _execute_anthropic raise ValueError before any
\* provider is invoked.
execute_with_fallback(operation, p, s) ==
    IF operation \notin OperationMap
    THEN [provider |-> "none", result_of |-> "none", invoked |-> <<>>,
          raises |-> "HTTPException500"]
    ELSE ExecuteWithFallback(p, s)

NotCalled == [provider |-> "none", result_of |-> "none", invoked |-> <<>>,
              raises |-> "not called"]
FallbackIdle == [operation |-> "gen_from_query", p |-> "ok", s |-> "ok",
                 out |-> NotCalled]

\* ------------------------------------------------------------ pure parts
\* Whether iterating a value of this runtime type is possible.
Iterable(type) == type \in {"tuple", "DataFrame", "str", "list"}

IsDataFrame(kind) == kind \in {"DataFrame", "EmptyDataFrame"}

\* Lines 113-126: the diff-context step.  Yields "AttributeError" when
\* old_data[0].content has no attribute empty, "TypeError" when the new
\* content cannot be enumerated, and otherwise the keys of the diffs made.
DiffKeys(old_data, content) ==
    { <<i, j>> \in (1..Len(old_data)) \X (1..Len(content.items)) :
        IsDataFrame(old_data[i]) /\ content.items[j] = "DataFrame" }

DiffContextStep(old_data, content) ==
    IF Len(old_data) = 0 THEN [raises |-> "none", keys |-> {}]
    ELSE IF ~IsDataFrame(old_data[1])
         THEN [raises |-> "AttributeError", keys |-> {}]
    ELSE IF old_data[1] = "EmptyDataFrame" THEN [raises |-> "none", keys |-> {}]
    ELSE IF ~Iterable(content.type)
         THEN [raises |-> "TypeError", keys |-> {}]
    ELSE [raises |-> "none", keys |-> DiffKeys(old_data, content)]


\* ------------------------------------------------- control of the loops
\* Line 89: the literal the first error loop compares error_attempts with.
HardCodedAttempts == 6

\* Line 71: condition of the first error-correction loop.
FirstLoopCondUnbounded(res, ea) == res.error # NoError
FirstLoopCond(res, ea) == res.error # NoError /\ ea < ERROR_ATTEMPTS

\* Lines 89-91: the return inside the first error-correction loop.
FirstLoopReturn(ea) == ea = HardCodedAttempts

\* Line 95: condition of the analysis loop.
AnalysisLoopCond(aa) == aa < ANALYSIS_ATTEMPTS

\* Line 174: condition of the error-correction loop of a later round.
SecondLoopCondSkipsTimeouts(res, ea) ==
    res.error # NoError /\ ~res.timed_out /\ ea < ERROR_ATTEMPTS
SecondLoopCond(res, ea) == res.error # NoError /\ ea < ERROR_ATTEMPTS

\* Line 191: the bound test inside the later rounds' error loop.
SecondLoopBoundHit(ea) == ea = ERROR_ATTEMPTS

\* Line 197: the bound test at the end of an analysis round.
AnalysisBoundHit(aa) == aa = ANALYSIS_ATTEMPTS

\* Lines 74 and 177: past_errors.append(result.error).
AppendErrorDropped(pe, res) == pe
AppendError(pe, res) == Append(pe, res.id)

\* Lines 172-173: a later round restarts the error loop; error_attempts is
\* set to 0 and past_errors is left as it is.
RestartKeepsAttempts(ea, pe) == [error_attempts |-> ea, past_errors |-> pe]
RestartClearsErrors(ea, pe) == [error_attempts |-> 0, past_errors |-> <<>>]
RestartErrorLoop(ea, pe) == [error_attempts |-> 0, past_errors |-> pe]

\* Lines 192 and 198: result.error = "Failed to interpret query. ..."
WithFixedMessage(res) == [res EXCEPT !.error = FixedMessage]

\* Lines 148-155: the SandboxResult built on a positive classification.
SuccessResult(res, nd) ==
    [id |-> 0, error |-> NoError, error_detail |-> "none",
     return_value |-> nd, timed_out |-> FALSE]

\* Lines 203-224: the two except clauses.
HandleException(kind) ==
    [id |-> 0,
     error |-> IF kind = "ConnectionError" THEN ConnectionErrorMessage
               ELSE InterpretationFailedMessage,
     error_detail |-> kind,
     return_value |-> NoneValue,
     timed_out |-> FALSE]

ExceptSite(kind) == IF kind = "ConnectionError" THEN "L213" ELSE "L224"

\* The SandboxResult of the next execution, for a sandbox outcome o.
NewResult(o) ==
    [id |-> calls["execute_code"] + 1,
     error |-> o.error,
     error_detail |-> "none",
     return_value |-> [type |-> o.type, items |-> o.items,
                       src |-> calls["execute_code"] + 1],
     timed_out |-> o.timed_out]

\* ------------------------------------------------------- step fragments
Call(op) == /\ calls' = [calls EXCEPT ![op] = @ + 1]
            /\ lastCall' = op

Continue(label) == /\ pc' = label
                   /\ UNCHANGED <<ret, retSite, raised>>

ReturnAndRegenerate(r, site) == /\ pc' = "L159"
                                /\ ret' = r
                                /\ retSite' = site
                                /\ UNCHANGED raised
Return(r, site) == /\ pc' = "done"
                   /\ ret' = r
                   /\ retSite' = site
                   /\ UNCHANGED raised

\* Lines 203-224: an exception ends the run in one of the except clauses.
RaiseAndRetry(kind, origin) == /\ raised' = origin
                               /\ UNCHANGED <<pc, ret, retSite>>
Raise(kind, origin) == /\ pc' = "done"
                       /\ ret' = HandleException(kind)
                       /\ retSite' = ExceptSite(kind)
                       /\ raised' = origin

NoteErrored(res) ==
    errored' = IF res.error # NoError THEN errored \cup {res.id} ELSE errored

\* os.getenv of a variable that is not set yields None.
Unset == -1

\* int(os.getenv(...)) raises a TypeError on None.
IntEnvRaises(v) == v = Unset

\* Lines 71 and 174: "result.error and error_attempts < int(os.getenv(..))"
\* evaluates the setting only when result.error is set.
ErrorLoopTestRaises(res) == res.error # NoError /\ IntEnvRaises(ERROR_ATTEMPTS)

\* Lines 93-95 and 201: entering the analysis loop after the first round.
EnterAnalysis(res) ==
    /\ analysis_attempts' = 1
    /\ IF IntEnvRaises(ANALYSIS_ATTEMPTS) THEN Raise("TypeError", "config")
       ELSE IF AnalysisLoopCond(1) THEN Continue("L128")
       ELSE Return(res, "L201")

\* Lines 195-201: the end of an analysis round.
AfterRound(res) ==
    /\ analysis_attempts' = analysis_attempts + 1
    /\ IF IntEnvRaises(ANALYSIS_ATTEMPTS)
       THEN /\ result' = res
            /\ Raise("TypeError", "config")
       ELSE IF AnalysisBoundHit(analysis_attempts + 1)
       THEN /\ result' = WithFixedMessage(res)
            /\ Return(WithFixedMessage(res), "L199")
       ELSE /\ result' = res
            /\ IF AnalysisLoopCond(analysis_attempts + 1)
               THEN Continue("L128")
               ELSE Return(res, "L201")

\* What the run never assigns: the settings, the datasets and the state of
\* the client's connection.
ConfigVars == <<ERROR_ATTEMPTS, ANALYSIS_ATTEMPTS, data, connected, HelperVars>>
VerdictVars == <<analysed, positive, negative>>

\* An awaited llm_service.execute_with_fallback(...): some provider answers
\* and the run goes on at label, or both fail and the exception is caught.
GatewayCall(label) ==
    \E raises \in {ExecuteWithFallback(p, s).raises :
                      p \in ProviderOutcomes, s \in ProviderOutcomes} :
        IF raises = "none"
        THEN Continue(label)
        ELSE Raise(raises, "gateway")

\* ---------------------------------------------------------------- actions
\* Line 62: gen_from_query.
GenFromQuery ==
    /\ pc = "L62"
    /\ Call("gen_from_query")
    /\ GatewayCall("L65")
    /\ UNCHANGED <<ConfigVars, VerdictVars, result, error_attempts,
                   analysis_attempts, past_errors, new_data,
                   full_diff_context, errored>>

\* Lines 64-71 (and 93-95, 201 when the loop is not entered).
Execute ==
    /\ pc = "L65"
    /\ Call("execute_code")
    /\ \/ \E o \in SandboxOutcomes :
            LET res == NewResult(o) IN
            /\ result' = res
            /\ NoteErrored(res)
            /\ error_attempts' = 0
            /\ past_errors' = <<>>
            /\ IF ErrorLoopTestRaises(res)
               THEN Raise("TypeError", "config") /\ UNCHANGED analysis_attempts
               ELSE IF FirstLoopCond(res, 0)
               THEN Continue("L76") /\ UNCHANGED analysis_attempts
               ELSE EnterAnalysis(res)
       \/ /\ \E e \in SandboxExceptions : Raise(e, "sandbox")
          /\ UNCHANGED <<result, errored, error_attempts, past_errors,
                         analysis_attempts>>
    /\ UNCHANGED <<ConfigVars, VerdictVars, new_data, full_diff_context>>

\* Lines 72-82: append the error, gen_from_error (first round).
GenFromError1 ==
    /\ pc = "L76"
    /\ past_errors' = AppendError(past_errors, result)
    /\ Call("gen_from_error")
    /\ GatewayCall("L87")
    /\ UNCHANGED <<ConfigVars, VerdictVars, result, error_attempts,
                   analysis_attempts, new_data, full_diff_context, errored>>

\* Lines 84-91 and the loop test of line 71 (first round).
ExecuteCorrection1 ==
    /\ pc = "L87"
    /\ Call("execute_code")
    /\ \/ \E o \in SandboxOutcomes :
            LET res == NewResult(o) IN
            /\ result' = res
            /\ NoteErrored(res)
            /\ error_attempts' = error_attempts + 1
            /\ IF FirstLoopReturn(error_attempts + 1)
               THEN Return(res, "L91") /\ UNCHANGED analysis_attempts
               ELSE IF ErrorLoopTestRaises(res)
               THEN Raise("TypeError", "config") /\ UNCHANGED analysis_attempts
               ELSE IF FirstLoopCond(res, error_attempts + 1)
                    THEN Continue("L76") /\ UNCHANGED analysis_attempts
                    ELSE EnterAnalysis(res)
       \/ /\ \E e \in SandboxExceptions : Raise(e, "sandbox")
          /\ UNCHANGED <<result, errored, error_attempts, analysis_attempts>>
    /\ UNCHANGED <<ConfigVars, VerdictVars, past_errors, new_data,
                   full_diff_context>>

\* Lines 96-134: wrap the return value, build the diff context, then
\* analyze_sandbox_result.
Analyze ==
    /\ pc = "L128"
    /\ new_data' = result.return_value
    /\ LET step == DiffContextStep(data, result.return_value) IN
       IF step.raises # "none"
       THEN /\ Raise(step.raises, "internal")
            /\ UNCHANGED <<calls, lastCall, analysed, full_diff_context>>
       ELSE /\ full_diff_context' = step.keys
            /\ Call("analyze_sandbox_result")
            /\ analysed' = analysed \cup {result.id}
            /\ GatewayCall("L136")
    /\ UNCHANGED <<ConfigVars, positive, negative, result, error_attempts,
                   analysis_attempts, past_errors, errored>>

\* Lines 136-156: sentiment_analysis and the success return.
Sentiment ==
    /\ pc = "L136"
    /\ Call("sentiment_analysis")
    /\ \/ /\ positive' = positive \cup {result.id}
          /\ result' = SuccessResult(result, new_data)
          /\ Return(SuccessResult(result, new_data), "L156")
          /\ UNCHANGED <<negative>>
       \/ /\ GatewayCall("L159")
          /\ negative' = IF raised' = "none"
                          THEN negative \cup {result.id} ELSE negative
          /\ UNCHANGED <<positive, result>>
    /\ UNCHANGED <<ConfigVars, analysed, error_attempts, analysis_attempts,
                   past_errors, new_data, full_diff_context, errored>>

\* Lines 159-165: gen_from_analysis.
GenFromAnalysis ==
    /\ pc = "L159"
    /\ Call("gen_from_analysis")
    /\ GatewayCall("L170")
    /\ UNCHANGED <<ConfigVars, VerdictVars, result, error_attempts,
                   analysis_attempts, past_errors, new_data,
                   full_diff_context, errored>>

\* Lines 167-174 (and 195-201 when the loop is not entered).
ExecuteRegenerated ==
    /\ pc = "L170"
    /\ Call("execute_code")
    /\ \/ \E o \in SandboxOutcomes :
            LET res == NewResult(o)
                restart == RestartErrorLoop(error_attempts, past_errors) IN
            /\ NoteErrored(res)
            /\ error_attempts' = restart.error_attempts
            /\ past_errors' = restart.past_errors
            /\ IF ErrorLoopTestRaises(res)
               THEN /\ result' = res
                    /\ Raise("TypeError", "config")
                    /\ UNCHANGED analysis_attempts
               ELSE IF SecondLoopCond(res, restart.error_attempts)
               THEN /\ result' = res
                    /\ Continue("L178")
                    /\ UNCHANGED analysis_attempts
               ELSE AfterRound(res)
       \/ /\ \E e \in SandboxExceptions : Raise(e, "sandbox")
          /\ UNCHANGED <<result, errored, error_attempts, past_errors,
                         analysis_attempts>>
    /\ UNCHANGED <<ConfigVars, VerdictVars, new_data, full_diff_context>>

\* Lines 175-184: append the error, gen_from_error (later rounds).
GenFromError2 ==
    /\ pc = "L178"
    /\ past_errors' = AppendError(past_errors, result)
    /\ Call("gen_from_error")
    /\ GatewayCall("L189")
    /\ UNCHANGED <<ConfigVars, VerdictVars, result, error_attempts,
                   analysis_attempts, new_data, full_diff_context, errored>>

\* Lines 186-201: execute the corrected code of a later round.
ExecuteCorrection2 ==
    /\ pc = "L189"
    /\ Call("execute_code")
    /\ \/ \E o \in SandboxOutcomes :
            LET res == NewResult(o) IN
            /\ NoteErrored(res)
            /\ error_attempts' = error_attempts + 1
            /\ IF IntEnvRaises(ERROR_ATTEMPTS)
               THEN /\ result' = res
                    /\ Raise("TypeError", "config")
                    /\ UNCHANGED analysis_attempts
               ELSE IF SecondLoopBoundHit(error_attempts + 1)
               THEN /\ result' = WithFixedMessage(res)
                    /\ Return(WithFixedMessage(res), "L193")
                    /\ UNCHANGED analysis_attempts
               ELSE IF SecondLoopCond(res, error_attempts + 1)
                    THEN /\ result' = res
                         /\ Continue("L178")
                         /\ UNCHANGED analysis_attempts
                    ELSE AfterRound(res)
       \/ /\ \E e \in SandboxExceptions : Raise(e, "sandbox")
          /\ UNCHANGED <<result, errored, error_attempts, analysis_attempts>>
    /\ UNCHANGED <<ConfigVars, VerdictVars, past_errors, new_data,
                   full_diff_context>>

\* The invoking client goes away while the run is in progress
\* (request.is_disconnected() turns true); the run assigns nothing.
Disconnect ==
    /\ pc # "done"
    /\ connected
    /\ connected' = FALSE
    /\ UNCHANGED <<ERROR_ATTEMPTS, ANALYSIS_ATTEMPTS, data, pc, result,
                   error_attempts, analysis_attempts, past_errors, new_data,
                   full_diff_context, ret, retSite, calls, lastCall, errored,
                   analysed, positive, negative, raised, HelperVars>>

\* ------------------------------------------------- compute_dataset_diff
\* data_processing.py, lines 68-173.  A table is a pandas DataFrame: its
\* column labels, its row labels (the index; integer labels that need not
\* be 0..n-1) and one cell per row and column.
MaxLabel == 1
Labels == 0..MaxLabel
Columns == {"A", "B"}
NaN == "NaN"
CellValues == {"1", "2", NaN}

Tables ==
    UNION {[cols : {c}, index : {i}, val : [i \X c -> CellValues]] :
             c \in SUBSET Columns, i \in SUBSET Labels}

\* pd.DataFrame()
EmptyDataFrame == [cols |-> {}, index |-> {}, val |-> [p \in {} |-> NaN]]

\* len(df)
Rows(df) == Cardinality(df.index)

\* df.loc[idx] for labels that are all in the index.
Loc(df, idx) ==
    [cols |-> df.cols, index |-> idx,
     val |-> [p \in idx \X df.cols |-> df.val[p]]]

\* df.loc[idx] if len(idx) > 0 else pd.DataFrame()  (lines 167-169)
LocOrEmpty(df, idx) == IF idx # {} THEN Loc(df, idx) ELSE EmptyDataFrame

\* The element-wise != of lines 107-108: a missing value differs from
\* every value, itself included.
CellNe(x, y) == x = NaN \/ y = NaN \/ x # y

\* Lines 105-111.
ModifiedIndices(old, new, common_columns) ==
    {i \in old.index \cap new.index :
        \E c \in common_columns : CellNe(old.val[<<i, c>>], new.val[<<i, c>>])}

Max(a, b) == IF a >= b THEN a ELSE b
Min(a, b) == IF a <= b THEN a ELSE b

\* The default of the parameter context_radius.
ContextRadius == 2

\* Lines 118-123: positions around each affected label.
ContextIndices(affected, new) ==
    UNION {Max(0, idx - ContextRadius) ..
             (Min(Rows(new), idx + ContextRadius + 1) - 1) : idx \in affected}

NotComputed == [fails |-> "not computed"]

\* Lines 76-102: the tables share no column.
NoCommonColumnsKeepsNothing(old, new) ==
    [fails |-> "none",
     added_rows |-> EmptyDataFrame,
     modified_rows |-> EmptyDataFrame,
     deleted_rows |-> EmptyDataFrame,
     context_rows |-> EmptyDataFrame,
     statistics |-> [total_rows_old |-> Rows(old),
                     total_rows_new |-> Rows(new),
                     modified_rows_count |-> 0,
                     added_rows_count |-> Rows(new),
                     deleted_rows_count |-> Rows(old),
                     added_columns |-> new.cols \ old.cols,
                     deleted_columns |-> old.cols \ new.cols],
     change_patterns |-> [keys |-> {"is_schema_change"},
                          true |-> {"is_schema_change"},
                          common_columns |-> {}]]
NoCommonColumns(old, new) ==
    [fails |-> "none",
     added_rows |-> IF Rows(new) > 0 THEN new ELSE EmptyDataFrame,
     modified_rows |-> EmptyDataFrame,
     deleted_rows |-> IF Rows(old) > 0 THEN old ELSE EmptyDataFrame,
     context_rows |-> EmptyDataFrame,
     statistics |-> [total_rows_old |-> Rows(old),
                     total_rows_new |-> Rows(new),
                     modified_rows_count |-> 0,
                     added_rows_count |-> Rows(new),
                     deleted_rows_count |-> Rows(old),
                     added_columns |-> new.cols \ old.cols,
                     deleted_columns |-> old.cols \ new.cols],
     change_patterns |-> [keys |-> {"is_schema_change"},
                          true |-> {"is_schema_change"},
                          common_columns |-> {}]]

\* Lines 104-173: the tables share a column.  new_df.loc[...] of line 170
\* raises a KeyError when a context position is not a label of new_df.
CommonColumns(old, new, common_columns) ==
    LET modified_indices == ModifiedIndices(old, new, common_columns)
        added_indices == new.index \ old.index
        deleted_indices == old.index \ new.index
        all_affected_indices ==
            modified_indices \cup added_indices \cup deleted_indices
        context_indices == ContextIndices(all_affected_indices, new)
        is_append_only == /\ added_indices # {}
                          /\ modified_indices = {}
                          /\ deleted_indices = {}
        is_modify_only == /\ added_indices = {}
                          /\ modified_indices # {}
                          /\ deleted_indices = {}
        is_schema_change ==
            (new.cols \ old.cols) \cup (old.cols \ new.cols) # {}
    IN  IF ~(context_indices \subseteq new.index)
        THEN [fails |-> "KeyError"]
        ELSE [fails |-> "none",
              added_rows |-> LocOrEmpty(new, added_indices),
              modified_rows |-> LocOrEmpty(new, modified_indices),
              deleted_rows |-> LocOrEmpty(old, deleted_indices),
              context_rows |-> LocOrEmpty(new, context_indices),
              statistics |->
                  [total_rows_old |-> Rows(old),
                   total_rows_new |-> Rows(new),
                   modified_rows_count |-> Cardinality(modified_indices),
                   added_rows_count |-> Cardinality(added_indices),
                   deleted_rows_count |-> Cardinality(deleted_indices),
                   added_columns |-> new.cols \ old.cols,
                   deleted_columns |-> old.cols \ new.cols],
              change_patterns |->
                  [keys |-> {"is_append_only", "is_modify_only",
                             "is_schema_change"},
                   true |-> {k \in {"is_append_only", "is_modify_only",
                                     "is_schema_change"} :
                               \/ k = "is_append_only" /\ is_append_only
                               \/ k = "is_modify_only" /\ is_modify_only
                               \/ k = "is_schema_change" /\ is_schema_change},
                   common_columns |-> common_columns]]

compute_dataset_diff(old, new) ==
    LET common_columns == old.cols \cap new.cols IN
    IF common_columns = {}
    THEN NoCommonColumns(old, new)
    ELSE CommonColumns(old, new, common_columns)

\* One call compute_dataset_diff(old_df, new_df).
ComputeDiff ==
    /\ diff = NotComputed
    /\ diff' = compute_dataset_diff(old_df, new_df)
    /\ UNCHANGED <<ERROR_ATTEMPTS, ANALYSIS_ATTEMPTS, data, pc, result,
                   error_attempts, analysis_attempts, past_errors, new_data,
                   full_diff_context, ret, retSite, calls, lastCall, errored,
                   analysed, positive, negative, raised, connected, old_df,
                   new_df, suggested_code, extracted, fallback, naming,
                   conncheck>>

NotExtracted == [done |-> FALSE, code |-> <<>>]

\* --------------------------------------------------------- extract_code
\* process_query_algo.py, lines 15-32.  A str is the sequence of its
\* characters; an index of the code counts from 0.
MaxLines == 3
\* The grave accent (U+0060), written by name.
Backtick == "grave"
Fence == <<Backtick, Backtick, Backtick>>
Newline == "\n"
Whitespace == {" ", Newline}

\* The lines an answer of the model is made of: statements, a blank line, import
\* statements, a display call, and assignments to names that begin with
\* the letters of a keyword.
CodeLines ==
    {<<"x", "=", "1">>,
     <<>>,
     <<"i", "m", "p", "o", "r", "t", " ", "o", "s">>,
     <<"f", "r", "o", "m", " ", "a", " ", "i", "m", "p", "o", "r", "t", " ", "b">>,
     <<"p", "l", "t", ".", "s", "h", "o", "w", "(", ")">>,
     <<"i", "m", "p", "o", "r", "t", "a", "n", "t", "=", "1">>,
     <<"f", "r", "o", "m", "_", "d", "a", "t", "e", "=", "2">>,
     <<" ", " ", "y", "=", "2">>}

RECURSIVE Join(_, _)
\* sep.join(parts)
Join(parts, sep) ==
    IF parts = <<>> THEN <<>>
    ELSE IF Len(parts) = 1 THEN parts[1]
    ELSE parts[1] \o <<sep>> \o Join(Tail(parts), sep)

Bodies == UNION {[1..n -> CodeLines] : n \in 0..MaxLines}

\* The answers: bare code, a fenced block with or without the language
\* tag, and a fenced block after a line of prose.
Unfenced(b) == Join(b, Newline)
Fenced(lead, tag, b) ==
    lead \o Fence \o tag \o <<Newline>> \o Join(b, Newline) \o <<Newline>> \o Fence
PythonTag == <<"p", "y", "t", "h", "o", "n">>
Prose == <<"o", "k", "\n">>
Texts ==
    {Unfenced(b) : b \in Bodies}
    \cup {Fenced(<<>>, PythonTag, b) : b \in Bodies}
    \cup {Fenced(<<>>, <<>>, b) : b \in Bodies}
    \cup {Fenced(Prose, PythonTag, b) : b \in Bodies}

\* s.startswith(prefix)
StartsWith(s, prefix) ==
    Len(prefix) <= Len(s) /\ SubSeq(s, 1, Len(prefix)) = prefix

\* The indices at which sub occurs in s.
Occurrences(s, sub) ==
    {i \in 0..(Len(s) - Len(sub)) : SubSeq(s, i + 1, i + Len(sub)) = sub}

\* s.find(sub) and s.rfind(sub): -1 when sub does not occur.
Find(s, sub) ==
    LET occ == Occurrences(s, sub) IN
    IF occ = {} THEN -1 ELSE CHOOSE i \in occ : \A j \in occ : i <= j
RFind(s, sub) ==
    LET occ == Occurrences(s, sub) IN
    IF occ = {} THEN -1 ELSE CHOOSE i \in occ : \A j \in occ : i >= j

\* s[a:b]: a negative index counts from the end.
PySlice(s, a, b) ==
    LET n == Len(s)
        lo == IF a < 0 THEN Max(0, a + n) ELSE Min(a, n)
        hi == IF b < 0 THEN Max(0, b + n) ELSE Min(b, n)
    IN  IF lo >= hi THEN <<>> ELSE SubSeq(s, lo + 1, hi)

RECURSIVE LStrip(_)
LStrip(s) ==
    IF s # <<>> /\ Head(s) \in Whitespace THEN LStrip(Tail(s)) ELSE s
RECURSIVE RStrip(_)
RStrip(s) ==
    IF s # <<>> /\ s[Len(s)] \in Whitespace
    THEN RStrip(SubSeq(s, 1, Len(s) - 1)) ELSE s
\* s.strip()
Strip(s) == RStrip(LStrip(s))

RECURSIVE Split(_, _)
\* s.split(sep) for a one-character sep.
Split(s, sep) ==
    LET at == {i \in 1..Len(s) : s[i] = sep} IN
    IF at = {} THEN <<s>>
    ELSE LET i == CHOOSE k \in at : \A j \in at : k <= j IN
         <<SubSeq(s, 1, i - 1)>> \o Split(SubSeq(s, i + 1, Len(s)), sep)

ImportWord == <<"i", "m", "p", "o", "r", "t">>
FromWord == <<"f", "r", "o", "m">>
PltShow == <<"p", "l", "t", ".", "s", "h", "o", "w", "(", ")">>

\* Lines 28-30: the lines that are kept.
KeepsLine(line) ==
    /\ ~StartsWith(Strip(line), ImportWord)
    /\ ~StartsWith(Strip(line), FromWord)
    /\ Strip(line) # PltShow

extract_code(text) ==
    LET code_start == Find(text, Fence) + 3
        code_end == RFind(text, Fence)
        extracted_code == Strip(PySlice(text, code_start, code_end))
        untagged == IF StartsWith(extracted_code, PythonTag)
                    THEN Strip(PySlice(extracted_code, 6, Len(extracted_code)))
                    ELSE extracted_code
    IN  Join(SelectSeq(Split(untagged, Newline), KeepsLine), Newline)

\* One call extract_code(suggested_code).
ExtractCode ==
    /\ ~extracted.done
    /\ extracted' = [done |-> TRUE, code |-> extract_code(suggested_code)]
    /\ UNCHANGED <<ERROR_ATTEMPTS, ANALYSIS_ATTEMPTS, data, pc, result,
                   error_attempts, analysis_attempts, past_errors, new_data,
                   full_diff_context, ret, retSite, calls, lastCall, errored,
                   analysed, positive, negative, raised, connected, old_df,
                   new_df, diff, suggested_code, fallback, naming, conncheck>>

\* ------------------------------------------------ execute_with_fallback
\* One call llm_service.execute_with_fallback(operation, ...).
CallWithFallback ==
    /\ fallback.out = NotCalled
    /\ fallback' = [fallback EXCEPT
                       !.out = execute_with_fallback(fallback.operation,
                                                     fallback.p, fallback.s)]
    /\ UNCHANGED <<ERROR_ATTEMPTS, ANALYSIS_ATTEMPTS, data, pc, result,
                   error_attempts, analysis_attempts, past_errors, new_data,
                   full_diff_context, ret, retSite, calls, lastCall, errored,
                   analysed, positive, negative, raised, connected, old_df,
                   new_df, diff, suggested_code, extracted, naming, conncheck>>

NotNamed == [done |-> FALSE, namespace |-> <<>>, announced |-> <<>>]

\* ------------------------------------------------------ variable names
\* process_query_algo.py lines 49-52 and llm_service.py lines 814-823.
MaxDatasets == 4
MaxManyDatasets == 11
DatasetKinds == {"DataFrame", "EmptyDataFrame", "str"}

\* The lists of datasets: every list of up to MaxDatasets datasets of any
\* kind, and the lists of up to MaxManyDatasets tables.
NamedLists ==
    UNION {[1..n -> DatasetKinds] : n \in 0..MaxDatasets}
    \cup {[i \in 1..n |-> "DataFrame"] : n \in 1..MaxManyDatasets}

DigitChars == <<"0", "1", "2", "3", "4", "5", "6", "7", "8", "9">>

RECURSIVE Digits(_)
\* str(n) for n >= 0, as in f'{idx}'.
Digits(n) ==
    IF n < 10 THEN <<DigitChars[n + 1]>>
    ELSE Digits(n \div 10) \o <<DigitChars[(n % 10) + 1]>>

DataWord == <<"d", "a", "t", "a">>

\* process_query_algo.py line 51.
NamespaceVarNameIndexed(idx) == DataWord \o <<"_">> \o Digits(idx)
NamespaceVarName(idx) ==
    IF idx > 0 THEN DataWord \o <<"_">> \o Digits(idx) ELSE DataWord

\* llm_service.py line 819.
DescriptionVarName(idx) ==
    IF idx > 0 THEN DataWord \o <<"_">> \o Digits(idx) ELSE DataWord

\* Lines 49-52: namespace[var_name] = file_data.content for idx = 0, 1, ...;
\* a later assignment to the same name replaces the earlier one.  The
\* namespace is given as the index of the dataset each name is bound to.
BuildNamespace(d) ==
    LET names == {NamespaceVarName(i) : i \in 0..(Len(d) - 1)} IN
    [name \in names |->
        CHOOSE i \in 0..(Len(d) - 1) :
            /\ NamespaceVarName(i) = name
            /\ \A j \in 0..(Len(d) - 1) : NamespaceVarName(j) = name => j <= i]

\* Lines 814-823: the names after "Variable Name:", in the order written.
BuildDataDescription(d) == [i \in 1..Len(d) |-> DescriptionVarName(i - 1)]

\* The namespace is built and the datasets are described to the model.
NameDatasets ==
    /\ ~naming.done
    /\ naming' = [done |-> TRUE, namespace |-> BuildNamespace(data),
                  announced |-> BuildDataDescription(data)]
    /\ UNCHANGED <<ERROR_ATTEMPTS, ANALYSIS_ATTEMPTS, data, pc, result,
                   error_attempts, analysis_attempts, past_errors, new_data,
                   full_diff_context, ret, retSite, calls, lastCall, errored,
                   analysed, positive, negative, raised, connected, old_df,
                   new_df, diff, suggested_code, extracted, fallback,
                   conncheck>>
\* ---------------------------------------------- check_client_connection
\* connection_and_status.py, lines 10-31.  answers is what the successive
\* calls of request.is_disconnected() do: report the client connected,
\* report it disconnected, or raise an exception.
MaxChecks == 4
MAX_RETRIES == 3
RETRY_DELAY == 1
CheckAnswers == {"connected", "disconnected", "exception"}

ConnIdle == [answers |-> <<>>, attempt |-> 0, checks |-> 0, slept |-> 0,
             at |-> "idle", ret |-> "none"]

\* Lines 18 and 25: whether the loop sleeps and tries again.
MayRetryOnceMore(attempt) == attempt < MAX_RETRIES
MayRetry(attempt) == attempt < MAX_RETRIES - 1

\* Lines 15-31 up to the next sleep: the loop test, one awaited
\* request.is_disconnected() and what follows from its answer.
IsDisconnected ==
    /\ conncheck.at = "L17"
    /\ conncheck' =
          IF conncheck.attempt >= MAX_RETRIES
          THEN [conncheck EXCEPT !.at = "returned", !.ret = "True"]
          ELSE LET answer == conncheck.answers[conncheck.checks + 1]
                   made == [conncheck EXCEPT !.checks = @ + 1] IN
               IF answer = "connected"
               THEN [made EXCEPT !.at = "returned", !.ret = "True"]
               ELSE IF MayRetry(conncheck.attempt)
               THEN [made EXCEPT !.at = "sleep"]
               ELSE [made EXCEPT !.at = "returned", !.ret = "False"]
    /\ UNCHANGED <<ERROR_ATTEMPTS, ANALYSIS_ATTEMPTS, data, pc, result,
                   error_attempts, analysis_attempts, past_errors, new_data,
                   full_diff_context, ret, retSite, calls, lastCall, errored,
                   analysed, positive, negative, raised, connected, old_df,
                   new_df, diff, suggested_code, extracted, fallback, naming>>

\* Lines 19-20 and 26-27: await asyncio.sleep(RETRY_DELAY); continue.
Sleep ==
    /\ conncheck.at = "sleep"
    /\ conncheck' = [conncheck EXCEPT !.at = "L17",
                                      !.attempt = @ + 1,
                                      !.slept = @ + RETRY_DELAY]
    /\ UNCHANGED <<ERROR_ATTEMPTS, ANALYSIS_ATTEMPTS, data, pc, result,
                   error_attempts, analysis_attempts, past_errors, new_data,
                   full_diff_context, ret, retSite, calls, lastCall, errored,
                   analysed, positive, negative, raised, connected, old_df,
                   new_df, diff, suggested_code, extracted, fallback, naming>>

\* ---------------------------------------------------------- specification
OthersIdle ==
    /\ fallback = FallbackIdle
    /\ naming = NotNamed
    /\ conncheck = ConnIdle

\* No helper function is being applied.
HelpersIdle ==
    /\ old_df = EmptyDataFrame
    /\ new_df = EmptyDataFrame
    /\ diff = NotComputed
    /\ suggested_code = <<>>
    /\ extracted = NotExtracted
    /\ OthersIdle

Init ==
    /\ ERROR_ATTEMPTS \in 1..MaxErrorAttempts
    /\ ANALYSIS_ATTEMPTS \in 1..MaxAnalysisAttempts
    /\ data \in DatasetLists
    /\ pc = "L62"
    /\ result = NoResult
    /\ error_attempts = 0
    /\ analysis_attempts = 0
    /\ past_errors = <<>>
    /\ new_data = NoneValue
    /\ full_diff_context = {}
    /\ ret = NoResult
    /\ retSite = "none"
    /\ calls = [op \in Operations |-> 0]
    /\ lastCall = "none"
    /\ errored = {}
    /\ analysed = {}
    /\ positive = {}
    /\ negative = {}
    /\ raised = "none"
    /\ connected = TRUE
    /\ HelpersIdle

Next ==
    \/ GenFromQuery
    \/ Execute
    \/ GenFromError1
    \/ ExecuteCorrection1
    \/ Analyze
    \/ Sentiment
    \/ GenFromAnalysis
    \/ ExecuteRegenerated
    \/ GenFromError2
    \/ ExecuteCorrection2

Spec == Init /\ [][Next]_vars

\* The run is a sequence of awaited calls: a step that is possible is
\* eventually taken.
FairSpec == Spec /\ WF_vars(Next)

\* The settings as the environment can hold them: not set, zero, positive.
ConfigValues == {Unset, 0, 1, 2}

\* A run under any environment, valid or not.
InitConfig ==
    /\ ERROR_ATTEMPTS \in ConfigValues
    /\ ANALYSIS_ATTEMPTS \in ConfigValues
    /\ data \in DatasetLists
    /\ pc = "L62"
    /\ result = NoResult
    /\ error_attempts = 0
    /\ analysis_attempts = 0
    /\ past_errors = <<>>
    /\ new_data = NoneValue
    /\ full_diff_context = {}
    /\ ret = NoResult
    /\ retSite = "none"
    /\ calls = [op \in Operations |-> 0]
    /\ lastCall = "none"
    /\ errored = {}
    /\ analysed = {}
    /\ positive = {}
    /\ negative = {}
    /\ raised = "none"
    /\ connected = TRUE
    /\ HelpersIdle

SpecConfig == InitConfig /\ [][Next]_vars

\* A run during which the client may disconnect at any moment.
NextCancel == Next \/ Disconnect

SpecCancel == InitConfig /\ [][NextCancel]_vars

\* No run of process_query_algo is in progress.
NoRun ==
    /\ ERROR_ATTEMPTS = 1
    /\ ANALYSIS_ATTEMPTS = 1
    /\ data = <<>>
    /\ pc = "done"
    /\ result = NoResult
    /\ error_attempts = 0
    /\ analysis_attempts = 0
    /\ past_errors = <<>>
    /\ new_data = NoneValue
    /\ full_diff_context = {}
    /\ ret = NoResult
    /\ retSite = "none"
    /\ calls = [op \in Operations |-> 0]
    /\ lastCall = "none"
    /\ errored = {}
    /\ analysed = {}
    /\ positive = {}
    /\ negative = {}
    /\ raised = "none"
    /\ connected = TRUE

\* compute_dataset_diff applied to any two tables.
InitDiff ==
    /\ NoRun
    /\ old_df \in Tables
    /\ new_df \in Tables
    /\ diff = NotComputed
    /\ suggested_code = <<>>
    /\ extracted = NotExtracted
    /\ OthersIdle

NextDiff == ComputeDiff

SpecDiff == InitDiff /\ [][NextDiff]_vars

\* extract_code applied to any answer.
InitExtract ==
    /\ NoRun
    /\ old_df = EmptyDataFrame
    /\ new_df = EmptyDataFrame
    /\ diff = NotComputed
    /\ suggested_code \in Texts
    /\ extracted = NotExtracted
    /\ OthersIdle

NextExtract == ExtractCode

SpecExtract == InitExtract /\ [][NextExtract]_vars

\* execute_with_fallback applied to any operation name, whatever the two
\* providers do with it.
InitFallback ==
    /\ NoRun
    /\ old_df = EmptyDataFrame
    /\ new_df = EmptyDataFrame
    /\ diff = NotComputed
    /\ suggested_code = <<>>
    /\ extracted = NotExtracted
    /\ fallback \in [operation : OperationMap \cup {UnknownOperation},
                      p : ProviderOutcomes, s : ProviderOutcomes,
                      out : {NotCalled}]
    /\ naming = NotNamed
    /\ conncheck = ConnIdle

NextFallback == CallWithFallback

SpecFallback == InitFallback /\ [][NextFallback]_vars

\* The datasets of any list are named.
InitNaming ==
    /\ ERROR_ATTEMPTS = 1
    /\ ANALYSIS_ATTEMPTS = 1
    /\ data \in NamedLists
    /\ pc = "done"
    /\ result = NoResult
    /\ error_attempts = 0
    /\ analysis_attempts = 0
    /\ past_errors = <<>>
    /\ new_data = NoneValue
    /\ full_diff_context = {}
    /\ ret = NoResult
    /\ retSite = "none"
    /\ calls = [op \in Operations |-> 0]
    /\ lastCall = "none"
    /\ errored = {}
    /\ analysed = {}
    /\ positive = {}
    /\ negative = {}
    /\ raised = "none"
    /\ connected = TRUE
    /\ HelpersIdle

NextNaming == NameDatasets

SpecNaming == InitNaming /\ [][NextNaming]_vars

\* One call of check_client_connection, whatever the connection checks
\* answer.
InitConnCheck ==
    /\ NoRun
    /\ old_df = EmptyDataFrame
    /\ new_df = EmptyDataFrame
    /\ diff = NotComputed
    /\ suggested_code = <<>>
    /\ extracted = NotExtracted
    /\ fallback = FallbackIdle
    /\ naming = NotNamed
    /\ conncheck \in [answers : [1..MaxChecks -> CheckAnswers],
                       attempt : {0}, checks : {0}, slept : {0},
                       at : {"L17"}, ret : {"none"}]

NextConnCheck == IsDisconnected \/ Sleep

SpecConnCheck == InitConnCheck /\ [][NextConnCheck]_vars


\* ================================================================ claims
NumExec == calls["execute_code"]

IsPrefix(s, t) == Len(s) <= Len(t) /\ SubSeq(t, 1, Len(s)) = s

\* A gateway or sandbox call raised.
CollaboratorRaised == raised \in {"gateway", "sandbox"}

\* ---------------------------------------------------------------- C1
ExecBound == ERROR_ATTEMPTS * (ANALYSIS_ATTEMPTS + 1) + ANALYSIS_ATTEMPTS

\* C1: in every run, for all positive ERROR_ATTEMPTS and ANALYSIS_ATTEMPTS
\* and every sequence of sandbox outcomes and verdicts, the number of
\* execute_code calls never exceeds
\* ERROR_ATTEMPTS * (ANALYSIS_ATTEMPTS + 1) + ANALYSIS_ATTEMPTS, and the
\* run reaches a return.
C1_BoundedExecutions == [](NumExec <= ExecBound) /\ <>(pc = "done")

\* A run that went through every round and failed the last correction.
C1_Witness ==
    /\ pc = "done"
    /\ retSite = "L193"
    /\ ANALYSIS_ATTEMPTS = 3
    /\ analysis_attempts = 2
    /\ NumExec > 2 * ERROR_ATTEMPTS

\* ---------------------------------------------------------------- C2
\* C2: if the first generated code executes without error and the
\* classifier answers positive (no call fails, no negative verdict is
\* given), the run makes exactly one sandbox execution and returns that
\* execution's return value with error None, for every dataset list and
\* every type of return value.
C2_FirstCleanPositive ==
    (/\ pc = "done"
     /\ NumExec >= 1
     /\ 1 \notin errored
     /\ negative = {}
     /\ ~CollaboratorRaised)
    => (/\ NumExec = 1
        /\ ret.error = NoError
        /\ ret.return_value.src = 1)

\* ---------------------------------------------------------------- C3
\* C3: a result with error None is returned only if the return value it
\* carries comes from an execution whose analysis was judged positive.
C3_SuccessOnlyAfterPositive ==
    (pc = "done" /\ ret.error = NoError) => ret.return_value.src \in positive

\* ---------------------------------------------------------------- C4
\* C4: once the first round's executions 1 .. ERROR_ATTEMPTS + 1 have all
\* failed, the run has returned the last sandbox result unchanged with its
\* technical error; and no result whose error is set is ever analysed.
C4_FirstRoundExhaustion ==
    /\ analysed \cap errored = {}
    /\ ((1..(ERROR_ATTEMPTS + 1)) \subseteq errored /\ ~CollaboratorRaised)
       => (/\ pc = "done"
           /\ ret.id = ERROR_ATTEMPTS + 1
           /\ ret.error = SandboxError)

\* ---------------------------------------------------------------- C5
\* C5: when every execution is error-free and no classification is
\* positive, the run returns the fixed message as its error, for every
\* positive ANALYSIS_ATTEMPTS.
C5_AllNegativeFixedMessage ==
    (/\ pc = "done"
     /\ NumExec >= 1
     /\ errored = {}
     /\ positive = {}
     /\ ~CollaboratorRaised)
    => ret.error = FixedMessage

\* ---------------------------------------------------------------- C6
\* C6: if executions 1 .. k fail and execution k + 1 succeeds, with
\* k <= ERROR_ATTEMPTS, past_errors has length k; if moreover the
\* classification of execution k + 1 is positive, the run has returned
\* after exactly k + 1 executions with error None.
C6_ErrorsThenSuccess ==
    \A k \in 0..ERROR_ATTEMPTS :
        /\ (errored = 1..k /\ NumExec = k + 1 /\ result.id = k + 1)
           => Len(past_errors) = k
        /\ (errored = 1..k /\ (k + 1) \in positive)
           => (/\ pc = "done"
               /\ NumExec = k + 1
               /\ Len(past_errors) = k
               /\ ret.error = NoError
               /\ ret.return_value.src = k + 1)

\* The spec's case: two failures, then success, ERROR_ATTEMPTS = 3.
C6_Witness ==
    /\ pc = "done"
    /\ ERROR_ATTEMPTS = 3
    /\ errored = {1, 2}
    /\ 3 \in positive
    /\ NumExec = 3

\* ---------------------------------------------------------------- C7
\* C7: the length of past_errors equals the number of gen_from_error
\* requests made so far, over all rounds, and past_errors only grows: each
\* step leaves it a prefix of its new value.
C7_PastErrorsAppendOnly ==
    /\ [](Len(past_errors) = calls["gen_from_error"])
    /\ [][IsPrefix(past_errors, past_errors')]_vars

\* A later round appends to the errors kept from the first round.
C7_Witness ==
    /\ pc = "L189"
    /\ error_attempts = 0
    /\ negative # {}
    /\ Len(past_errors) >= 3

\* ---------------------------------------------------------------- C8
\* C8: when the code regenerated after a negative analysis fails, the
\* error loop starts with error_attempts = 0 and makes at most
\* ERROR_ATTEMPTS corrections in that round; if the execution of the last
\* allowed correction still fails, the run returns that result with the
\* fixed message as its error.
C8_LaterRoundRestart ==
    /\ [][(pc = "L170" /\ pc' = "L178") => error_attempts' = 0]_vars
    /\ [](pc \in {"L178", "L189"} => error_attempts < ERROR_ATTEMPTS)
    /\ []((/\ pc = "done"
           /\ raised = "none"
           /\ negative # {}
           /\ NumExec \in errored
           /\ error_attempts = ERROR_ATTEMPTS)
          => (ret.error = FixedMessage /\ ret.id = NumExec))

\* The last allowed correction of a later round failed, after a first
\* round that had used corrections of its own.
C8_Witness ==
    /\ pc = "done"
    /\ retSite = "L193"
    /\ NumExec \in errored
    /\ ERROR_ATTEMPTS >= 2
    /\ error_attempts = ERROR_ATTEMPTS
    /\ Len(past_errors) > ERROR_ATTEMPTS

\* ---------------------------------------------------------------- C9
\* C9: when every execution is error-free and every classification is
\* negative, the run makes exactly ANALYSIS_ATTEMPTS analysis rounds (one
\* analyze_sandbox_result and one sentiment_analysis call each) before it
\* returns the fixed message.
C9_AnalysisRounds ==
    (/\ pc = "done"
     /\ NumExec >= 1
     /\ errored = {}
     /\ positive = {}
     /\ raised = "none")
    => (/\ calls["analyze_sandbox_result"] = ANALYSIS_ATTEMPTS
        /\ calls["sentiment_analysis"] = ANALYSIS_ATTEMPTS
        /\ ret.error = FixedMessage)

\* --------------------------------------------------------------- C10
\* C10: once a gateway or sandbox call has raised, the run has returned a
\* result with error set and return_value None, and no further gateway or
\* sandbox call is made.
C10_ExceptionIsTerminal ==
    /\ [](CollaboratorRaised
          => (/\ pc = "done"
              /\ ret.error \in {ConnectionErrorMessage,
                                InterpretationFailedMessage}
              /\ ret.return_value = NoneValue))
    /\ [][CollaboratorRaised => calls' = calls]_vars

\* A gateway call of a later round raised, after executions had run.
C10_Witness ==
    /\ raised = "gateway"
    /\ lastCall = "gen_from_analysis"
    /\ pc = "done"
    /\ NumExec >= 1


\* --------------------------------------------------------------- C11
\* C11: whenever both providers fail for a gateway operation, whatever the
\* kind of each failure, the call raises the service-unavailable condition
\* (status 503) and the run's result differs from the one produced for an
\* unexpected internal exception.
C11_ServiceUnavailable ==
    (pc = "done" /\ raised = "gateway")
    => (/\ ret.error_detail = "HTTPException503"
        /\ ret.error # InterpretationFailedMessage)

\* --------------------------------------------------------------- C12
InvalidConfig == ERROR_ATTEMPTS < 1 \/ ANALYSIS_ATTEMPTS < 1

\* C12: under a missing or invalid ERROR_ATTEMPTS or ANALYSIS_ATTEMPTS no
\* gateway or sandbox call is made and no run returns a result.
C12_InvalidConfigIsFatal ==
    InvalidConfig => (/\ \A op \in Operations : calls[op] = 0
                      /\ pc # "done")

\* --------------------------------------------------------------- C13
\* C13: the error of the result returned for an unexpected exception holds
\* no text of the exception caught.
C13_SanitizedError ==
    (/\ pc = "done"
     /\ raised \in {"internal", "config", "sandbox"}
     /\ ret.error = InterpretationFailedMessage)
    => ret.error_detail = "none"

\* --------------------------------------------------------------- C14
CancellableOperations == {"gen_from_query", "gen_from_error",
                          "gen_from_analysis", "execute_code"}

\* C14: once the client has disconnected, no new code generation and no new
\* sandbox execution is started.
C14_NoCallAfterDisconnect ==
    [][~connected => \A op \in CancellableOperations : calls'[op] = calls[op]]_vars

\* --------------------------------------------------------------- C20
\* C20: when no pair of an old tabular dataset and a new tabular component
\* exists, the diff-context step does not fail and analyze_sandbox_result
\* is called with an empty context.
C20_EmptyContextWhenNoPairs ==
    [][(pc = "L128" /\ DiffKeys(data, result.return_value) = {})
       => (/\ calls'["analyze_sandbox_result"]
                = calls["analyze_sandbox_result"] + 1
           /\ full_diff_context' = {})]_vars


\* --------------------------------------------------------------- C15
\* df.empty: no row or no column.
Empty(df) == df.index = {} \/ df.cols = {}

\* C15: compute_dataset_diff(T, T) yields empty added_rows, modified_rows
\* and deleted_rows and reports is_append_only and is_modify_only false,
\* whatever the rows and cells of T.
C15_SelfDiffEmpty ==
    (diff # NotComputed /\ old_df = new_df)
    => (/\ diff.fails = "none"
        /\ Empty(diff.added_rows)
        /\ Empty(diff.modified_rows)
        /\ Empty(diff.deleted_rows)
        /\ diff.change_patterns.true \cap {"is_append_only", "is_modify_only"} = {})

\* --------------------------------------------------------------- C16
\* new has every row label of old and exactly one more, and the same cell
\* as old at every row label of old and column of both.
AppendsOneRow(old, new) ==
    /\ old.cols \cap new.cols # {}
    /\ old.index \subseteq new.index
    /\ Cardinality(new.index \ old.index) = 1
    /\ \A i \in old.index : \A c \in old.cols \cap new.cols :
          new.val[<<i, c>>] = old.val[<<i, c>>]

\* C16: when the new table only adds one row to the old one,
\* compute_dataset_diff yields one added row, no modified and no deleted
\* row, and is_append_only true.
C16_OneRowAppended ==
    (diff # NotComputed /\ AppendsOneRow(old_df, new_df))
    => (/\ diff.fails = "none"
        /\ Rows(diff.added_rows) = 1
        /\ Empty(diff.modified_rows)
        /\ Empty(diff.deleted_rows)
        /\ "is_append_only" \in diff.change_patterns.true)

\* --------------------------------------------------------------- C17
\* t holds exactly the rows of df.
SameRows(t, df) ==
    /\ t.index = df.index
    /\ t.index # {} => (t.cols = df.cols /\ t.val = df.val)

\* C17: for tables with no column in common compute_dataset_diff does not
\* fail, returns the rows of the new table as added_rows, the rows of the
\* old table as deleted_rows, no modified row, and is_schema_change true.
C17_NoCommonColumns ==
    (diff # NotComputed /\ old_df.cols \cap new_df.cols = {})
    => (/\ diff.fails = "none"
        /\ SameRows(diff.added_rows, new_df)
        /\ SameRows(diff.deleted_rows, old_df)
        /\ Empty(diff.modified_rows)
        /\ "is_schema_change" \in diff.change_patterns.true)

\* Two tables of unequal shapes without a common column have been compared.
C17_Witness ==
    /\ diff # NotComputed
    /\ old_df.cols # {} /\ new_df.cols # {}
    /\ old_df.cols \cap new_df.cols = {}
    /\ Rows(old_df) > Rows(new_df)
    /\ Rows(new_df) > 0
    /\ Rows(diff.added_rows) = Rows(new_df)


\* --------------------------------------------------------------- C18
\* An import statement, and a call that displays a plot.
IsImportStatement(line) ==
    \/ StartsWith(Strip(line), ImportWord \o <<" ">>)
    \/ StartsWith(Strip(line), FromWord \o <<" ">>)
IsDisplayCall(line) == Strip(line) = PltShow
IsCode(line) == ~IsImportStatement(line) /\ ~IsDisplayCall(line)

\* The lines of text without its import statements and display calls.
WithoutArtifacts(text) ==
    Join(SelectSeq(Split(text, Newline), IsCode), Newline)

\* C18: for a text without a fence, extract_code returns the whole text
\* with only its import lines and display-call lines removed (compared
\* here up to surrounding whitespace).
C18_UnfencedIsCode ==
    (extracted.done /\ Occurrences(suggested_code, Fence) = {})
    => Strip(extracted.code) = Strip(WithoutArtifacts(suggested_code))

\* --------------------------------------------------------------- C19
\* text holds exactly one fenced block, which starts with the tag.
OneTaggedBlock(text) ==
    /\ Cardinality(Occurrences(text, Fence)) = 2
    /\ StartsWith(PySlice(text, Find(text, Fence) + 3, Len(text)),
                  PythonTag \o <<Newline>>)

\* The content of that block after the line of the tag.
BlockContent(text) ==
    PySlice(text, Find(text, Fence) + 3 + Len(PythonTag) + 1, RFind(text, Fence))

\* C19: for a text with one fenced block that starts with the language
\* tag, extract_code returns the content of the block without the tag, the
\* import lines and the display-call lines, every other line kept as it is
\* and in order (compared here up to surrounding whitespace).
C19_StripsExactlyArtifacts ==
    (extracted.done /\ OneTaggedBlock(suggested_code))
    => Strip(extracted.code) = Strip(WithoutArtifacts(BlockContent(suggested_code)))


\* --------------------------------------------------------------- C21
\* How often provider was invoked in the call.
Invocations(out, provider) ==
    Cardinality({i \in 1..Len(out.invoked) : out.invoked[i] = provider})

\* C21: for every operation of the map, execute_with_fallback invokes the
\* primary provider first and once, the secondary only after the primary
\* failed and then once, never more than two providers, and it returns the
\* result and the name of the first provider that answered.
C21_FallbackOrder ==
    (fallback.out # NotCalled /\ fallback.operation \in OperationMap)
    => LET out == fallback.out IN
       /\ Len(out.invoked) \in 1..2
       /\ out.invoked[1] = "openai"
       /\ Invocations(out, "openai") = 1
       /\ Invocations(out, "anthropic") = IF fallback.p = "ok" THEN 0 ELSE 1
       /\ fallback.p = "ok"
            => (/\ out.raises = "none"
                /\ out.provider = "openai" /\ out.result_of = "openai")
       /\ (fallback.p # "ok" /\ fallback.s = "ok")
            => (/\ out.raises = "none"
                /\ out.provider = "anthropic" /\ out.result_of = "anthropic")
       /\ (fallback.p # "ok" /\ fallback.s # "ok") => out.raises # "none"

\* The primary failed and the answer of the secondary has been returned.
C21_Witness ==
    /\ fallback.out # NotCalled
    /\ fallback.operation = "gen_from_error"
    /\ fallback.p = "Error" /\ fallback.s = "ok"
    /\ fallback.out.invoked = <<"openai", "anthropic">>
    /\ fallback.out.provider = "anthropic"


\* --------------------------------------------------------------- C22
\* C22: in the first round the error loop stops after a correction whose
\* execution still failed only when ERROR_ATTEMPTS corrections have been
\* made, whatever the positive value of ERROR_ATTEMPTS.
C22_FirstRoundBoundIsConfigured ==
    [][(/\ pc = "L87"
        /\ raised' = "none"
        /\ result'.error # NoError
        /\ pc' # "L76")
       => error_attempts' = ERROR_ATTEMPTS]_vars


\* --------------------------------------------------------------- C23
\* The same sandbox result with the other value of timed_out.
TimedOutTwin(res) == [res EXCEPT !.timed_out = ~res.timed_out]

\* What the two error loops decide on a result, at the counters given.
LoopDecisions(res, ea, pe) ==
    [raises |-> ErrorLoopTestRaises(res),
     first |-> FirstLoopCond(res, ea),
     second |-> SecondLoopCond(res, ea),
     appended |-> AppendError(pe, res),
     message |-> WithFixedMessage(res).error]

\* C23: after every execution that yields an error, the error loops decide
\* the same for the result and for the same result with the other value of
\* timed_out: same next call, same counters, same append to past_errors.
C23_TimeoutHandledAsError ==
    [][(/\ calls'["execute_code"] = calls["execute_code"] + 1
        /\ raised' = "none"
        /\ result'.error # NoError)
       => LET twin == LoopDecisions(TimedOutTwin(result'), error_attempts',
                                    past_errors') IN
          /\ LoopDecisions(result', error_attempts', past_errors') = twin
          /\ pc' = "L76" => twin.first
          /\ pc' = "L178" => twin.second]_vars

\* A result that timed out is being corrected in the first round and in a
\* later round.
C23_Witness ==
    /\ result.timed_out
    /\ result.error = SandboxError
    /\ pc = "L178"
    /\ error_attempts = 1
    /\ past_errors # <<>>


\* --------------------------------------------------------------- C24
\* The name the claim gives: data, data_1, data_2, ...
ClaimedName(i) ==
    IF i = 0 THEN <<"d", "a", "t", "a">>
    ELSE <<"d", "a", "t", "a", "_">> \o Digits(i)

\* C24: for every dataset index i the name announced in the prompt is the
\* name bound to dataset i in the namespace, it is data for i = 0 and
\* data_<i> otherwise, and no other index has the same name.
C24_NamesAgree ==
    naming.done
    => \A i \in 0..(Len(data) - 1) :
          LET name == naming.announced[i + 1] IN
          /\ name \in DOMAIN naming.namespace
          /\ naming.namespace[name] = i
          /\ name = ClaimedName(i)
          /\ \A j \in 0..(Len(data) - 1) :
                j # i => naming.announced[j + 1] # name

\* Eleven datasets have been named, the last one with a two-digit index.
C24_Witness ==
    /\ naming.done
    /\ Len(data) = 11
    /\ naming.announced[11] = <<"d", "a", "t", "a", "_", "1", "0">>
    /\ naming.namespace[<<"d", "a", "t", "a">>] = 0


\* --------------------------------------------------------------- C25
\* The row labels of both tables at which some shared column holds two
\* values that differ.
DifferingIndices(old, new) ==
    {i \in old.index \cap new.index :
        \E c \in old.cols \cap new.cols : old.val[<<i, c>>] # new.val[<<i, c>>]}

\* C25: for tables that share a column, the diff returned has as modified
\* rows the labels of both tables with differing values in a shared
\* column, as added rows the labels of the new table only, as deleted rows
\* the labels of the old table only, and as counts the sizes of these sets.
C25_RowClassification ==
    (/\ diff # NotComputed
     /\ diff.fails = "none"
     /\ old_df.cols \cap new_df.cols # {})
    => (/\ diff.modified_rows.index = DifferingIndices(old_df, new_df)
        /\ diff.added_rows.index = new_df.index \ old_df.index
        /\ diff.deleted_rows.index = old_df.index \ new_df.index
        /\ diff.statistics.modified_rows_count
             = Cardinality(DifferingIndices(old_df, new_df))
        /\ diff.statistics.added_rows_count
             = Cardinality(new_df.index \ old_df.index)
        /\ diff.statistics.deleted_rows_count
             = Cardinality(old_df.index \ new_df.index))

\* --------------------------------------------------------------- C26
\* The labels the diff treats as affected.
AffectedIndices(old, new) ==
    ModifiedIndices(old, new, old.cols \cap new.cols)
    \cup (new.index \ old.index) \cup (old.index \ new.index)

\* The labels of the new table within ContextRadius of an affected label.
WindowIndices(old, new) ==
    {i \in new.index :
        \E idx \in AffectedIndices(old, new) :
            idx - ContextRadius <= i /\ i <= idx + ContextRadius}

\* C26: for tables that share a column the selection of the context rows
\* does not fail, and context_rows holds the rows of the new table within
\* ContextRadius of an affected label.
C26_ContextRows ==
    (diff # NotComputed /\ old_df.cols \cap new_df.cols # {})
    => (/\ diff.fails = "none"
        /\ diff.context_rows.index = WindowIndices(old_df, new_df))


\* --------------------------------------------------------------- C27
\* The components of a new value: the table itself, or the members of a
\* tuple.
Components(value) ==
    IF value.type = "DataFrame" THEN <<"DataFrame">>
    ELSE IF value.type = "tuple" THEN value.items
    ELSE <<>>

\* The pairs of a tabular old dataset and a tabular component.
TabularPairs(old_data, value) ==
    { <<i, j>> \in (1..Len(old_data)) \X (1..Len(Components(value))) :
        IsDataFrame(old_data[i]) /\ Components(value)[j] = "DataFrame" }

\* C27: in each analysis round the diff-context step does not fail and the
\* context holds one diff for every pair of a tabular old dataset and a
\* tabular component of the new value, and no other.
C27_OneDiffPerPair ==
    [][pc = "L128"
       => (/\ raised' \in {"none", "gateway"}
           /\ full_diff_context' = TabularPairs(data, result.return_value))]_vars


\* --------------------------------------------------------------- C28
GenerationOperations == {"gen_from_query", "gen_from_error",
                         "gen_from_analysis"}

\* The step makes a call of op.
Called(op) == calls'[op] = calls[op] + 1

\* C28: gen_from_query is called once and before every other call; every
\* execution directly follows a code generation, every sentiment_analysis
\* an analyze_sandbox_result; gen_from_analysis directly follows a
\* sentiment_analysis judged negative; after a positive classification no
\* call is made.
C28_CallOrder ==
    /\ [][/\ Cardinality({op \in Operations : calls'[op] # calls[op]}) <= 1
          /\ \A op \in Operations : calls'[op] # calls[op] => Called(op)
          /\ Called("gen_from_query") => lastCall = "none"
          /\ (\E op \in Operations : Called(op) /\ op # "gen_from_query")
                => calls["gen_from_query"] = 1
          /\ Called("execute_code") => lastCall \in GenerationOperations
          /\ Called("sentiment_analysis")
                => lastCall = "analyze_sandbox_result"
          /\ Called("gen_from_analysis")
                => (/\ lastCall = "sentiment_analysis"
                    /\ result.id \in negative
                    /\ result.id \notin positive)
          /\ positive # {} => calls' = calls]_vars
    /\ [](calls["gen_from_query"] <= 1)

\* A run that corrected an error, regenerated after a negative
\* classification and ended on a positive one.
C28_Witness ==
    /\ pc = "done"
    /\ positive # {}
    /\ negative # {}
    /\ calls["gen_from_error"] >= 1
    /\ calls["gen_from_analysis"] >= 1


\* --------------------------------------------------------------- C29
\* C29: the error loop of a later round returns the fixed message (line
\* 193) only when the execution it has just run ended with an error.
C29_FixedMessageOnlyOnError ==
    [][(pc = "L189" /\ retSite' = "L193") => result'.id \in errored']_vars


\* --------------------------------------------------------------- C30
\* The answers of the connection checks made so far.
ChecksMade == SubSeq(conncheck.answers, 1, conncheck.checks)

\* C30: check_client_connection makes at most 3 connection checks, returns
\* True as soon as a check reports the client connected, and returns False
\* only after 3 checks that each reported a disconnect or raised.
C30_ConnectionCheck ==
    /\ conncheck.checks <= 3
    /\ \A k \in 1..Len(ChecksMade) :
          ChecksMade[k] = "connected"
             => (k = Len(ChecksMade) /\ conncheck.ret = "True")
    /\ conncheck.ret = "True"
          => (ChecksMade # <<>> /\ ChecksMade[Len(ChecksMade)] = "connected")
    /\ conncheck.ret = "False"
          => (/\ Len(ChecksMade) = 3
              /\ \A k \in 1..3 : ChecksMade[k] \in {"disconnected", "exception"})

\* Three checks failed, by a disconnect and by an exception, and the call
\* returned False although a fourth check would have found the client.
C30_Witness ==
    /\ conncheck.ret = "False"
    /\ ChecksMade = <<"disconnected", "exception", "disconnected">>
    /\ conncheck.answers[4] = "connected"
    /\ conncheck.slept = 2

====
